---- MODULE Spec2Model ----
(***************************************************************************)
(* Lead-capture form: the submission workflow of LeadCaptureForm.tsx       *)
(* (handleSubmit and the handlers around it), the session lead store the   *)
(* form writes to, and the table public.leads with its unique_email        *)
(* constraint.                                                             *)
(*                                                                         *)
(* The model follows one browser session: one lead store and one mounted   *)
(* form at a time.  A submission cycle is an async function: each await is *)
(* a point where the cycle is suspended with a request in flight, and the  *)
(* code between two awaits runs as one step.  A cycle whose form has been  *)
(* unmounted keeps running (live = FALSE): its writes to component state   *)
(* are lost, its writes to the store, the table and the toaster are not.   *)
(* Other clients appear through the rows they insert into the table.       *)
(* The send-confirmation function the form invokes is modelled on its own, *)
(* one invocation at a time, under SpecFn.                                 *)
(* A value written with a useState setter is taken to be the value the     *)
(* next handler invocation reads (React re-renders between events).        *)
(***************************************************************************)
EXTENDS Integers, Sequences, FiniteSets, TLC

\* ---------------------------------------------------------------- bounds
MaxMounts == 2   \* forms mounted in the session, the first mount included

\* ------------------------------------------------------------ the domain
Fields     == {"name", "email", "industry"}
Names      == {"", "Alice"}
Emails     == {"", "a@x.com", "b@x.com"}
Industries == {"", "technology"}
Null       == "null"

FieldValues(f) ==
  IF f = "name" THEN Names ELSE IF f = "email" THEN Emails ELSE Industries

EmptyForm == [name |-> "", email |-> "", industry |-> ""]

NoCalls == [check |-> 0, insert |-> 0, notify |-> 0]

VARIABLES
  formData,          \* the form fields                      useState, line 12
  validationErrors,  \* the fields with an error displayed   useState, line 13
  isSubmitting,      \* BOOLEAN                              useState, line 14
  submissionRef,     \* BOOLEAN                              useRef, line 17
  submitted,         \* BOOLEAN                              lead store
  sessionLeads,      \* Seq([name, email])                   lead store
  toast,             \* title of the toast raised by the step just taken, or Null
  ignored,           \* TRUE iff the step just taken was a submit the guard ignored
  inflight,          \* Seq(cycle): the suspended handleSubmit calls of the session
  leads,             \* Seq(row): the table public.leads
  mounts,            \* forms mounted so far in the session
  issued,            \* calls issued by the mounted form since it went busy
  notifyCalls,       \* per email, the send-confirmation invocations of all clients
  fn                 \* the send-confirmation function: its invocation in progress

vars == <<formData, validationErrors, isSubmitting, submissionRef, submitted,
          sessionLeads, toast, ignored, inflight, leads, mounts, issued,
          notifyCalls, fn>>

\* ------------------------------------------------------------- validator
EmailSyntaxOK(e) == e \in {"a@x.com", "b@x.com"}

validateLeadForm(fd) ==
  {f \in Fields :
     \/ f = "name"     /\ fd.name = ""
     \/ f = "email"    /\ ~EmailSyntaxOK(fd.email)
     \/ f = "industry" /\ fd.industry = ""}

\* ------------------------------------------------------------ lead store
addLead(log, lead) == Append(log, lead)

\* ------------------------------------------------------- the leads table
RowsWithEmail(tbl, e) == {k \in 1..Len(tbl) : tbl[k].email = e}

\* .select('email').eq('email', e).single(): a row only when exactly one
\* matches, an error otherwise; data is <<>> for null and <<row>> for a row
SelectSingle(tbl, e) ==
  IF Cardinality(RowsWithEmail(tbl, e)) = 1
  THEN [data |-> <<[email |-> e]>>, error |-> FALSE]
  ELSE [data |-> <<>>, error |-> TRUE]

\* the table without the constraint
unique_email_dropped(tbl, row) == TRUE

\* ADD CONSTRAINT unique_email UNIQUE (email): may row be added to tbl?
unique_email(tbl, row) == RowsWithEmail(tbl, row.email) = {}

\* the error the table answers an insert that violates unique_email with
UniqueViolation ==
  [code |-> "23505", message |-> <<"duplicate", "key", "unique_email">>]

\* errors an insert can fail with for other reasons
OtherInsertErrors ==
  { [code |-> "08006", message |-> <<"connection", "failure">>],
    [code |-> "23505", message |-> <<"duplicate", "key", "leads_pkey">>],
    [code |-> "",      message |-> <<"violates", "unique_email">>],
    [code |-> "",      message |-> <<>>] }

NoError == [code |-> "none", message |-> <<>>]

Includes(msg, tok) == \E k \in 1..Len(msg) : msg[k] = tok

\* a classification by the error code alone
IsDuplicateErrorByCodeOnly(err) == err.code = "23505"

\* dbError.message?.includes('unique_email') || dbError.code === '23505'
IsDuplicateError(err) ==
  Includes(err.message, "unique_email") \/ err.code = "23505"

\* rows other clients submit
OtherRows ==
  {[name |-> "Bob", email |-> e, industry |-> "finance"] : e \in {"a@x.com", "b@x.com"}}

\* ------------------------------------------------------------ the toasts
ToastAlreadyRegistered == "Already Registered"
ToastSaveFailed        == "Error: Failed to save your information"
ToastWentWrong         == "Error: Something went wrong"
ToastPartialSuccess    == "Partial Success"
ToastSuccess           == "Success!"

\* ------------------------------------------------------------- the guard
\* a guard that consults the ref alone
GuardRefOnly == submissionRef

\* isSubmitting || submissionRef.current
GuardBlocks == isSubmitting \/ submissionRef

RemoveAt(seq, k) == SubSeq(seq, 1, k - 1) \o SubSeq(seq, k + 1, Len(seq))

Req(op, body) == [op |-> op, body |-> body]

Pending(k, op) == \E r \in inflight[k].pend : r.op = op

TheReq(k, op) == CHOOSE r \in inflight[k].pend : r.op = op

LiveCycles == {k \in 1..Len(inflight) : inflight[k].live}

\* line 105: supabase.functions.invoke('send-confirmation', ...) for an email
Invoked(calls, email) == [calls EXCEPT ![email] = @ + 1]

\* ------------------------------------------- the send-confirmation function
Undefined == "undefined"

Methods == {"OPTIONS", "POST"}

\* the values a field of the request body can arrive with
BodyValues(f) == FieldValues(f) \cup {Undefined}

\* a request: its method, whether its body parses as JSON, and the body's fields
Requests ==
  {r \in [method : Methods, json : BOOLEAN, name : BodyValues("name"),
          email : BodyValues("email"), industry : BodyValues("industry")] :
     ~r.json => (r.name = Undefined /\ r.email = Undefined /\ r.industry = Undefined)}

\* Deno.env: is the key set?
Environments == [RESEND_API_KEY : BOOLEAN, OPENAI_API_KEY : BOOLEAN]

NoRequest ==
  [method |-> Null, json |-> FALSE, name |-> Undefined, email |-> Undefined,
   industry |-> Undefined]

Respond(status, error, emailId) ==
  [status |-> status, error |-> error, emailId |-> emailId]

NoResponse == Respond(0, Null, Null)

ErrBadBody       == "Unexpected end of JSON input"
ErrMissingFields == "Missing required fields: name, email, or industry"
ErrNotConfigured == "Email service not configured"
ErrResend        == "Resend API error"
MessageId        == "re_1"

\* the text of the email body: none yet, the static template, or generated
NoContent == "none"
Fallback  == "fallback"
Generated == "generated"

\* no invocation in progress
FnIdle ==
  [pc |-> "idle", req |-> NoRequest,
   env |-> [RESEND_API_KEY |-> FALSE, OPENAI_API_KEY |-> FALSE],
   content |-> NoContent, aiCalls |-> 0, sendCalls |-> 0,
   transport |-> Null, resp |-> NoResponse]

Init ==
  /\ formData = EmptyForm
  /\ validationErrors = {}
  /\ isSubmitting = FALSE
  /\ submissionRef = FALSE
  /\ submitted = FALSE
  /\ sessionLeads = <<>>
  /\ toast = Null
  /\ ignored = FALSE
  /\ inflight = <<>>
  /\ leads = <<>>
  /\ mounts = 1
  /\ issued = NoCalls
  /\ notifyCalls = [e \in Emails |-> 0]
  /\ fn = FnIdle

\* --------------------------------------- pieces of a step of handleSubmit
\* the flags left as they were until after the first await
RaisedFlagTooLate(flag) == flag

\* submissionRef.current = true; setIsSubmitting(true)
RaisedFlag(flag) == TRUE

\* the early return of the save-failed branch leaving the guard set
ClearedFlagNotOnSaveFailed(flag, k, site) ==
  IF inflight[k].live /\ site # "saveFailed" THEN FALSE ELSE flag

\* setIsSubmitting(false); submissionRef.current = false, at the site named
\* ("advisory" 59-60, "constraint" 86-87, "saveFailed" 96-97, "end" 147-148);
\* a lost write when the cycle's form is no longer mounted
ClearedFlag(flag, k, site) == IF inflight[k].live THEN FALSE ELSE flag

\* a terminal exit that leaves the fields as typed
ClearedFormRetained(k) == formData

\* setFormData({ name: '', email: '', industry: '' })
ClearedForm(k) == IF inflight[k].live THEN EmptyForm ELSE formData

\* the cycle returns: its continuation is gone
Return(k) == RemoveAt(inflight, k)

\* the cycle issues its next request and suspends at the await
Await(k, req) == [inflight EXCEPT ![k].pend = {req}]

\* calls issued on behalf of the mounted form; forgotten when it goes idle
Count(k, op) == IF inflight[k].live THEN [issued EXCEPT ![op] = @ + 1] ELSE issued

Forget(k) == IF inflight[k].live THEN NoCalls ELSE issued

\* the duplicate exit that only raises the toast and returns
AlreadyRegisteredToastOnly(k, site) ==
  /\ toast' = ToastAlreadyRegistered
  /\ isSubmitting' = ClearedFlag(isSubmitting, k, site)
  /\ submissionRef' = ClearedFlag(submissionRef, k, site)
  /\ inflight' = Return(k)
  /\ issued' = Forget(k)
  /\ UNCHANGED <<formData, submitted, sessionLeads>>

\* the duplicate exit counting the lead as one of the session's
AlreadyRegisteredAddingLead(k, site) ==
  /\ toast' = ToastAlreadyRegistered
  /\ sessionLeads' = addLead(sessionLeads,
        [name |-> inflight[k].snap.name, email |-> inflight[k].snap.email])
  /\ submitted' = TRUE
  /\ formData' = ClearedForm(k)
  /\ isSubmitting' = ClearedFlag(isSubmitting, k, site)
  /\ submissionRef' = ClearedFlag(submissionRef, k, site)
  /\ inflight' = Return(k)
  /\ issued' = Forget(k)

\* lines 53-61 and 80-88: the "already registered" exit
AlreadyRegistered(k, site) ==
  /\ toast' = ToastAlreadyRegistered
  /\ submitted' = TRUE
  /\ formData' = ClearedForm(k)
  /\ isSubmitting' = ClearedFlag(isSubmitting, k, site)
  /\ submissionRef' = ClearedFlag(submissionRef, k, site)
  /\ inflight' = Return(k)
  /\ issued' = Forget(k)
  /\ UNCHANGED sessionLeads

\* a catch block that also resets the form
CaughtResettingForm(k) ==
  /\ toast' = ToastWentWrong
  /\ formData' = ClearedForm(k)
  /\ isSubmitting' = ClearedFlag(isSubmitting, k, "end")
  /\ submissionRef' = ClearedFlag(submissionRef, k, "end")
  /\ inflight' = Return(k)
  /\ issued' = Forget(k)
  /\ UNCHANGED <<submitted, sessionLeads>>

\* a catch block that throws again: the handler's last two lines are not run
CaughtRethrowing(k) ==
  /\ toast' = ToastWentWrong
  /\ inflight' = Return(k)
  /\ issued' = Forget(k)
  /\ UNCHANGED <<formData, submitted, sessionLeads, isSubmitting, submissionRef>>

\* lines 138-148: the catch block, then the end of the handler
Caught(k) ==
  /\ toast' = ToastWentWrong
  /\ isSubmitting' = ClearedFlag(isSubmitting, k, "end")
  /\ submissionRef' = ClearedFlag(submissionRef, k, "end")
  /\ inflight' = Return(k)
  /\ issued' = Forget(k)
  /\ UNCHANGED <<formData, submitted, sessionLeads>>

\* if (errors): an array is always truthy
ProceedsAlways(errors) == TRUE

\* if (errors.length === 0)
Proceeds(errors) == errors = {}

\* the insert fired together with the duplicate check, neither awaited first
FirstRequestsUnawaited(fd) ==
  {Req("check", [email |-> fd.email]), Req("insert", fd)}

\* lines 46-50: the request the cycle starts with
FirstRequests(fd) == {Req("check", [email |-> fd.email])}

\* an early return placed after validation instead of before it
IgnoreSubmitAfterValidation ==
  /\ ignored' = TRUE
  /\ toast' = Null
  /\ validationErrors' = validateLeadForm(formData)
  /\ UNCHANGED <<formData, isSubmitting, submissionRef, inflight, issued>>

\* lines 30-33: the early return of a submit the guard ignores
IgnoreSubmit ==
  /\ ignored' = TRUE
  /\ toast' = Null
  /\ UNCHANGED <<formData, validationErrors, isSubmitting, submissionRef,
                 inflight, issued>>

\* ------------------------------------------------------------ the actions
\* lines 26-50: the guard, validation, and the duplicate-check query
handleSubmit ==
  /\ ~submitted
  /\ IF GuardBlocks
     THEN IgnoreSubmit
     ELSE LET errors == validateLeadForm(formData)
              fresh  == LiveCycles = {}
          IN  /\ ignored' = FALSE
              /\ toast' = Null
              /\ validationErrors' = errors
              /\ IF Proceeds(errors)
                 THEN /\ submissionRef' = RaisedFlag(submissionRef)
                      /\ isSubmitting' = RaisedFlag(isSubmitting)
                      /\ inflight' = Append(inflight,
                            [pend |-> FirstRequests(formData),
                             snap |-> formData,
                             live |-> TRUE])
                      /\ issued' = IF fresh THEN [NoCalls EXCEPT !.check = 1]
                                            ELSE [issued EXCEPT !.check = @ + 1]
                 ELSE /\ submissionRef' = FALSE
                      /\ isSubmitting' = FALSE
                      /\ UNCHANGED <<inflight, issued>>
              /\ UNCHANGED formData
  /\ UNCHANGED <<submitted, sessionLeads, leads, mounts, notifyCalls, fn>>

CheckOutcomes == {"return", "fail", "throw"}

\* a check whose error is rethrown: if (checkError) throw checkError
AfterDuplicateCheckThrowingOnError(k, outcome) ==
  /\ k \in 1..Len(inflight)
  /\ Pending(k, "check")
  /\ LET cyc == inflight[k]
         res == IF outcome = "return"
                THEN SelectSingle(leads, TheReq(k, "check").body.email)
                ELSE [data |-> <<>>, error |-> TRUE]
     IN  IF outcome = "throw" \/ res.error
         THEN Caught(k)
         ELSE AlreadyRegistered(k, "advisory")
  /\ ignored' = FALSE
  /\ UNCHANGED <<validationErrors, leads, mounts, notifyCalls, fn>>

\* lines 46-73: the duplicate check resolves; duplicate exit or the insert
AfterDuplicateCheck(k, outcome) ==
  /\ k \in 1..Len(inflight)
  /\ Pending(k, "check")
  /\ LET cyc == inflight[k]
         res == IF outcome = "return"
                THEN SelectSingle(leads, TheReq(k, "check").body.email)
                ELSE [data |-> <<>>, error |-> TRUE]
     IN  IF outcome = "throw"
         THEN Caught(k)
         ELSE IF res.data # <<>> /\ ~res.error
         THEN AlreadyRegistered(k, "advisory")
         ELSE /\ inflight' = Await(k, Req("insert", cyc.snap))
              /\ issued' = Count(k, "insert")
              /\ toast' = Null
              /\ UNCHANGED <<formData, isSubmitting, submissionRef, submitted, sessionLeads>>
  /\ ignored' = FALSE
  /\ UNCHANGED <<validationErrors, leads, mounts, notifyCalls, fn>>

InsertOutcomes ==
  {[kind |-> "return", err |-> NoError], [kind |-> "throw", err |-> NoError]}
    \cup {[kind |-> "error", err |-> e] : e \in OtherInsertErrors}

\* the lead added to the session log as soon as its insert has succeeded
AfterInsertAddingLead(k, outcome) ==
  /\ k \in 1..Len(inflight)
  /\ Pending(k, "insert")
  /\ LET cyc == inflight[k]
         row == TheReq(k, "insert").body
         ok  == outcome.kind = "return" /\ unique_email(leads, row)
         dbError == IF outcome.kind = "return" THEN UniqueViolation ELSE outcome.err
     IN  /\ leads' = IF ok THEN Append(leads, row) ELSE leads
         /\ notifyCalls' = IF ok THEN Invoked(notifyCalls, row.email) ELSE notifyCalls
         /\ IF outcome.kind = "throw"
            THEN Caught(k)
            ELSE IF ok
            THEN /\ inflight' = Await(k, Req("notify", cyc.snap))
                 /\ issued' = Count(k, "notify")
                 /\ toast' = Null
                 /\ sessionLeads' = addLead(sessionLeads,
                                            [name |-> cyc.snap.name, email |-> cyc.snap.email])
                 /\ UNCHANGED <<formData, isSubmitting, submissionRef, submitted>>
            ELSE IF IsDuplicateError(dbError)
            THEN AlreadyRegistered(k, "constraint")
            ELSE /\ toast' = ToastSaveFailed
                 /\ isSubmitting' = ClearedFlag(isSubmitting, k, "saveFailed")
                 /\ submissionRef' = ClearedFlag(submissionRef, k, "saveFailed")
                 /\ inflight' = Return(k)
                 /\ issued' = Forget(k)
                 /\ UNCHANGED <<formData, submitted, sessionLeads>>
  /\ ignored' = FALSE
  /\ UNCHANGED <<validationErrors, mounts, fn>>

\* lines 66-111: the insert resolves; duplicate exit, error exit or the notification
AfterInsert(k, outcome) ==
  /\ k \in 1..Len(inflight)
  /\ Pending(k, "insert")
  /\ LET cyc == inflight[k]
         row == TheReq(k, "insert").body
         ok  == outcome.kind = "return" /\ unique_email(leads, row)
         dbError == IF outcome.kind = "return" THEN UniqueViolation ELSE outcome.err
     IN  /\ leads' = IF ok THEN Append(leads, row) ELSE leads
         /\ notifyCalls' = IF ok THEN Invoked(notifyCalls, row.email) ELSE notifyCalls
         /\ IF outcome.kind = "throw"
            THEN Caught(k)
            ELSE IF ok
            THEN /\ inflight' = Await(k, Req("notify", cyc.snap))
                 /\ issued' = Count(k, "notify")
                 /\ toast' = Null
                 /\ UNCHANGED <<formData, isSubmitting, submissionRef, submitted, sessionLeads>>
            ELSE IF IsDuplicateError(dbError)
            THEN AlreadyRegistered(k, "constraint")
            ELSE /\ toast' = ToastSaveFailed
                 /\ isSubmitting' = ClearedFlag(isSubmitting, k, "saveFailed")
                 /\ submissionRef' = ClearedFlag(submissionRef, k, "saveFailed")
                 /\ inflight' = Return(k)
                 /\ issued' = Forget(k)
                 /\ UNCHANGED <<formData, submitted, sessionLeads>>
  /\ ignored' = FALSE
  /\ UNCHANGED <<validationErrors, mounts, fn>>

NotifyOutcomes == {"ok", "error", "throw"}

\* a notification that is sent again when it returns an error
AfterNotifyRetrying(k, outcome) ==
  /\ k \in 1..Len(inflight)
  /\ Pending(k, "notify")
  /\ LET cyc == inflight[k]
     IN  IF outcome = "throw"
         THEN Caught(k)
         ELSE IF outcome = "error"
         THEN /\ inflight' = Await(k, Req("notify", cyc.snap))
              /\ issued' = Count(k, "notify")
              /\ toast' = Null
              /\ UNCHANGED <<formData, isSubmitting, submissionRef, submitted, sessionLeads>>
         ELSE /\ toast' = ToastSuccess
              /\ sessionLeads' = addLead(sessionLeads,
                                         [name |-> cyc.snap.name, email |-> cyc.snap.email])
              /\ submitted' = TRUE
              /\ formData' = ClearedForm(k)
              /\ isSubmitting' = ClearedFlag(isSubmitting, k, "end")
              /\ submissionRef' = ClearedFlag(submissionRef, k, "end")
              /\ inflight' = Return(k)
              /\ issued' = Forget(k)
  /\ notifyCalls' = IF outcome = "error"
                    THEN Invoked(notifyCalls, inflight[k].snap.email)
                    ELSE notifyCalls
  /\ ignored' = FALSE
  /\ UNCHANGED <<validationErrors, leads, mounts, fn>>

\* a success branch that builds the lead from the fields as they are now
AfterNotifyLoggingCurrentFields(k, outcome) ==
  /\ k \in 1..Len(inflight)
  /\ Pending(k, "notify")
  /\ IF outcome = "throw"
     THEN Caught(k)
     ELSE /\ toast' = IF outcome = "error" THEN ToastPartialSuccess ELSE ToastSuccess
          /\ sessionLeads' = addLead(sessionLeads,
                                     [name |-> formData.name, email |-> formData.email])
          /\ submitted' = TRUE
          /\ formData' = ClearedForm(k)
          /\ isSubmitting' = ClearedFlag(isSubmitting, k, "end")
          /\ submissionRef' = ClearedFlag(submissionRef, k, "end")
          /\ inflight' = Return(k)
          /\ issued' = Forget(k)
  /\ ignored' = FALSE
  /\ UNCHANGED <<validationErrors, leads, mounts, notifyCalls, fn>>

\* lines 105-148: the notification resolves; success or partial success
AfterNotify(k, outcome) ==
  /\ k \in 1..Len(inflight)
  /\ Pending(k, "notify")
  /\ LET cyc == inflight[k]
     IN  IF outcome = "throw"
         THEN Caught(k)
         ELSE /\ toast' = IF outcome = "error" THEN ToastPartialSuccess ELSE ToastSuccess
              /\ sessionLeads' = addLead(sessionLeads,
                                         [name |-> cyc.snap.name, email |-> cyc.snap.email])
              /\ submitted' = TRUE
              /\ formData' = ClearedForm(k)
              /\ isSubmitting' = ClearedFlag(isSubmitting, k, "end")
              /\ submissionRef' = ClearedFlag(submissionRef, k, "end")
              /\ inflight' = Return(k)
              /\ issued' = Forget(k)
  /\ ignored' = FALSE
  /\ UNCHANGED <<validationErrors, leads, mounts, notifyCalls, fn>>

\* an edit that clears the errors of every field
handleInputChangeClearingAllErrors(field, value) ==
  /\ ~submitted
  /\ value \in FieldValues(field)
  /\ value # formData[field]
  /\ formData' = [formData EXCEPT ![field] = value]
  /\ validationErrors' = {}
  /\ toast' = Null
  /\ ignored' = FALSE
  /\ UNCHANGED <<isSubmitting, submissionRef, submitted, sessionLeads, inflight,
                 leads, mounts, issued, notifyCalls, fn>>

\* lines 151-156
handleInputChange(field, value) ==
  /\ ~submitted
  /\ value \in FieldValues(field)
  /\ value # formData[field]
  /\ formData' = [formData EXCEPT ![field] = value]
  /\ validationErrors' = validationErrors \ {field}
  /\ toast' = Null
  /\ ignored' = FALSE
  /\ UNCHANGED <<isSubmitting, submissionRef, submitted, sessionLeads, inflight,
                 leads, mounts, issued, notifyCalls, fn>>

\* a reset that also empties the session log
SubmitAnotherLeadClearingLog ==
  /\ submitted
  /\ submitted' = FALSE
  /\ submissionRef' = FALSE
  /\ sessionLeads' = <<>>
  /\ toast' = Null
  /\ ignored' = FALSE
  /\ UNCHANGED <<formData, validationErrors, isSubmitting,
                 inflight, leads, mounts, issued, notifyCalls, fn>>

\* lines 188-192: the "Submit Another Lead" button of the thank-you view
SubmitAnotherLead ==
  /\ submitted
  /\ submitted' = FALSE
  /\ submissionRef' = FALSE
  /\ toast' = Null
  /\ ignored' = FALSE
  /\ UNCHANGED <<formData, validationErrors, isSubmitting, sessionLeads,
                 inflight, leads, mounts, issued, notifyCalls, fn>>

\* lines 11-22: the form is unmounted and a fresh one is mounted in the session
Mount ==
  /\ mounts < MaxMounts
  /\ mounts' = mounts + 1
  /\ formData' = EmptyForm
  /\ validationErrors' = {}
  /\ isSubmitting' = FALSE
  /\ submissionRef' = FALSE
  /\ submitted' = FALSE
  /\ inflight' = [k \in 1..Len(inflight) |-> [inflight[k] EXCEPT !.live = FALSE]]
  /\ issued' = NoCalls
  /\ toast' = Null
  /\ ignored' = FALSE
  /\ UNCHANGED <<sessionLeads, leads, notifyCalls, fn>>

\* lines 66-111 run by another client: its row reaches the table, and its
\* cycle goes on to invoke the notification
OtherClientInsert(row) ==
  /\ unique_email(leads, row)
  /\ leads' = Append(leads, row)
  /\ notifyCalls' = Invoked(notifyCalls, row.email)
  /\ UNCHANGED <<formData, validationErrors, isSubmitting, submissionRef, submitted,
                 sessionLeads, toast, ignored, inflight, mounts, issued, fn>>

Next ==
  \/ handleSubmit
  \/ \E k \in 1..MaxMounts, o \in CheckOutcomes : AfterDuplicateCheck(k, o)
  \/ \E k \in 1..MaxMounts, o \in InsertOutcomes : AfterInsert(k, o)
  \/ \E k \in 1..MaxMounts, o \in NotifyOutcomes : AfterNotify(k, o)
  \/ \E f \in Fields : \E v \in FieldValues(f) : handleInputChange(f, v)
  \/ SubmitAnotherLead
  \/ Mount
  \/ \E row \in OtherRows : OtherClientInsert(row)

Spec == Init /\ [][Next]_vars

\* lines 46-50, 66-73, 105-111: the call cycle k awaits resolves, with any outcome
CycleStep(k) ==
  \/ \E o \in CheckOutcomes : AfterDuplicateCheck(k, o)
  \/ \E o \in InsertOutcomes : AfterInsert(k, o)
  \/ \E o \in NotifyOutcomes : AfterNotify(k, o)

\* every awaited call of every cycle eventually returns or throws; the user's
\* actions (submit, edit, reset, remount) and other clients are under no
\* obligation
CallsResolve == \A k \in 1..MaxMounts : WF_vars(CycleStep(k))

SpecFair == Spec /\ CallsResolve

\* ------------------------------- the actions of the send-confirmation function
formVars == <<formData, validationErrors, isSubmitting, submissionRef, submitted,
              sessionLeads, toast, ignored, inflight, leads, mounts, issued,
              notifyCalls>>

\* !name: undefined and the empty string are both falsy
Falsy(v) == v \in {"", Undefined}

\* a check that takes only an absent field as missing
MissingRequiredFieldsAbsentOnly(req) ==
  req.name = Undefined \/ req.email = Undefined \/ req.industry = Undefined

\* !name || !email || !industry
MissingRequiredFields(req) ==
  Falsy(req.name) \/ Falsy(req.email) \/ Falsy(req.industry)

\* the handler returns a response
Finish(f, resp) == [f EXCEPT !.pc = "done", !.resp = resp]

\* lines 16-37: the transport request is issued and awaited
sendEmailWithResend(f) == [f EXCEPT !.pc = "send", !.sendCalls = @ + 1]

\* lines 54-93: the static text at once without a key, else the request to
\* the generative-text API is issued and awaited
generatePersonalizedContent(f) ==
  IF ~f.env.OPENAI_API_KEY
  THEN sendEmailWithResend([f EXCEPT !.content = Fallback])
  ELSE [f EXCEPT !.pc = "content", !.aiCalls = @ + 1]

\* a handler that looks for the transport key only when about to send
handlerPersonalizingFirst(req, env) ==
  /\ fn.pc \in {"idle", "done"}
  /\ LET f == [FnIdle EXCEPT !.req = req, !.env = env]
     IN  fn' = IF req.method = "OPTIONS"
               THEN Finish(f, Respond(200, Null, Null))
               ELSE IF ~req.json
               THEN Finish(f, Respond(500, ErrBadBody, Null))
               ELSE IF MissingRequiredFields(req)
               THEN Finish(f, Respond(400, ErrMissingFields, Null))
               ELSE IF env.OPENAI_API_KEY
               THEN [f EXCEPT !.pc = "content", !.aiCalls = @ + 1]
               ELSE IF ~env.RESEND_API_KEY
               THEN Finish(f, Respond(500, ErrNotConfigured, Null))
               ELSE sendEmailWithResend([f EXCEPT !.content = Fallback])
  /\ UNCHANGED formVars

\* a handler that does not look for the transport key before going on
handlerWithoutKeyCheck(req, env) ==
  /\ fn.pc \in {"idle", "done"}
  /\ LET f == [FnIdle EXCEPT !.req = req, !.env = env]
     IN  fn' = IF req.method = "OPTIONS"
               THEN Finish(f, Respond(200, Null, Null))
               ELSE IF ~req.json
               THEN Finish(f, Respond(500, ErrBadBody, Null))
               ELSE IF MissingRequiredFields(req)
               THEN Finish(f, Respond(400, ErrMissingFields, Null))
               ELSE generatePersonalizedContent(f)
  /\ UNCHANGED formVars

\* lines 121-159: a request arrives; the handler runs to its first response
\* or to its first outgoing request
handler(req, env) ==
  /\ fn.pc \in {"idle", "done"}
  /\ LET f == [FnIdle EXCEPT !.req = req, !.env = env]
     IN  fn' = IF req.method = "OPTIONS"
               THEN Finish(f, Respond(200, Null, Null))
               ELSE IF ~req.json
               THEN Finish(f, Respond(500, ErrBadBody, Null))
               ELSE IF MissingRequiredFields(req)
               THEN Finish(f, Respond(400, ErrMissingFields, Null))
               ELSE IF ~env.RESEND_API_KEY
               THEN Finish(f, Respond(500, ErrNotConfigured, Null))
               ELSE generatePersonalizedContent(f)
  /\ UNCHANGED formVars

OpenAIOutcomes == {"content", "notOk", "noContent", "throw"}

\* a personalization step whose failure fails the request
AfterOpenAIPropagating(outcome) ==
  /\ fn.pc = "content"
  /\ fn' = IF outcome = "content"
           THEN sendEmailWithResend([fn EXCEPT !.content = Generated])
           ELSE Finish(fn, Respond(500, "OpenAI API error", Null))
  /\ UNCHANGED formVars

\* lines 95-119 and 159-199: the generative-text request resolves; every
\* failure is caught and answered with the static text; the email is sent
AfterOpenAI(outcome) ==
  /\ fn.pc = "content"
  /\ fn' = sendEmailWithResend(
             [fn EXCEPT !.content = IF outcome = "content" THEN Generated ELSE Fallback])
  /\ UNCHANGED formVars

ResendOutcomes == {"ok", "notOk", "throw"}

\* a transport step that does not look at response.ok
AfterResendIgnoringStatus(outcome) ==
  /\ fn.pc = "send"
  /\ fn' = Finish([fn EXCEPT !.transport = outcome],
                  IF outcome = "ok"
                  THEN Respond(200, Null, MessageId)
                  ELSE IF outcome = "notOk"
                  THEN Respond(200, Null, Null)
                  ELSE Respond(500, ErrResend, Null))
  /\ UNCHANGED formVars

\* lines 39-51 and 201-224: the transport request resolves
AfterResend(outcome) ==
  /\ fn.pc = "send"
  /\ fn' = Finish([fn EXCEPT !.transport = outcome],
                  IF outcome = "ok"
                  THEN Respond(200, Null, MessageId)
                  ELSE Respond(500, ErrResend, Null))
  /\ UNCHANGED formVars

NextFn ==
  \/ \E req \in Requests, env \in Environments : handler(req, env)
  \/ \E o \in OpenAIOutcomes : AfterOpenAI(o)
  \/ \E o \in ResendOutcomes : AfterResend(o)

SpecFn == Init /\ [][NextFn]_vars

\* ================================================================ claims
\* C1 (as amended).  While a cycle of the mounted form is in flight, however
\* many more times submit is invoked, the form runs that one cycle only: it has
\* issued at most one duplicate-check query, at most one insert and at most one
\* notification call, and exactly one insert once the cycle is past its check.
C1_OneCycleInFlight ==
  /\ Cardinality(LiveCycles) <= 1
  /\ issued.check <= 1 /\ issued.insert <= 1 /\ issued.notify <= 1
  /\ \A k \in LiveCycles :
       /\ issued.check = 1
       /\ (Pending(k, "insert") \/ Pending(k, "notify")) => issued.insert = 1

\* a submit was just ignored while the cycle's insert is pending
C1_Witness ==
  /\ ignored
  /\ \E k \in LiveCycles : Pending(k, "insert")
  /\ issued.insert = 1

\* C1 as stated: a cycle during which a further submit was ignored ends with
\* exactly one insert issued.
C1_ExactlyOneInsert ==
  [][(ignored /\ LiveCycles # {} /\ LiveCycles' = {}) => issued.insert = 1]_vars

\* C2.  A submit the guard ignores is a no-op: it issues no request, raises no
\* toast, and leaves the form fields, the validation errors, both guard flags,
\* the session store, the table and the cycles in flight as they were.
C2_IgnoredSubmitIsNoOp ==
  [][(~ignored /\ ignored') =>
        /\ toast' = Null
        /\ UNCHANGED <<formData, validationErrors, isSubmitting, submissionRef,
                       submitted, sessionLeads, inflight, leads, issued, mounts>>]_vars

\* a submit was just ignored while the user had emptied a field of the busy form
C2_Witness ==
  /\ ignored
  /\ LiveCycles # {}
  /\ validateLeadForm(formData) # {}
  /\ validationErrors = {}

C4_GuardSetWhilePending ==
  \A k \in LiveCycles : inflight[k].pend # {} => GuardBlocks

\* the duplicate-check query has just been issued and nothing else has happened
C4_Witness ==
  /\ \E k \in LiveCycles : Pending(k, "check")
  /\ isSubmitting /\ submissionRef
  /\ issued = [NoCalls EXCEPT !.check = 1]
  /\ leads = <<>>

\* C5.  An accepted submit whose fields fail validation issues no request (no
\* cycle is suspended, nothing is counted as issued, the table is untouched),
\* leaves submitted and the session log unchanged, keeps the field values, and
\* displays the validator's errors.
C5_InvalidSubmitCallsNothing ==
  [][(handleSubmit /\ ~GuardBlocks /\ validateLeadForm(formData) # {}) =>
        /\ UNCHANGED <<inflight, issued, leads, submitted, sessionLeads, formData>>
        /\ validationErrors' = validateLeadForm(formData)
        /\ toast' = Null]_vars

\* a partly filled form was submitted: the errors are shown, the fields kept
C5_Witness ==
  /\ validationErrors = {"industry"}
  /\ formData = [name |-> "Alice", email |-> "a@x.com", industry |-> ""]
  /\ inflight = <<>>
  /\ leads = <<>>

\* the table answers the pending request of cycle k, and holds the cycle's email
AnsweredForExistingEmail(k) ==
  /\ RowsWithEmail(leads, inflight[k].snap.email) # {}
  /\ \/ AfterDuplicateCheck(k, "return")
     \/ AfterInsert(k, [kind |-> "return", err |-> NoError])

\* C6.  When the email of a valid submit already exists, found by the advisory
\* check or by the insert being rejected by unique_email, the cycle ends as
\* "already registered": that toast, submitted true, the session log and the
\* table unchanged, no notification issued, and the form fields cleared.
C6_ExistingEmailAlreadyRegistered ==
  [][\A k \in 1..Len(inflight) :
        AnsweredForExistingEmail(k) =>
          /\ toast' = ToastAlreadyRegistered
          /\ submitted'
          /\ sessionLeads' = sessionLeads
          /\ leads' = leads
          /\ inflight' = RemoveAt(inflight, k)
          /\ inflight[k].live => (formData' = EmptyForm /\ issued.notify = 0)]_vars

\* an email another client had registered was submitted in the first form:
\* the thank-you view is up, the log is still empty, the fields are cleared
C6_Witness ==
  /\ toast = ToastAlreadyRegistered
  /\ submitted
  /\ mounts = 1
  /\ Len(leads) = 1 /\ leads[1].name = "Bob"
  /\ sessionLeads = <<>>
  /\ formData = EmptyForm
  /\ inflight = <<>>

\* C7.  When the insert has succeeded and the notification call fails, by
\* returning an error or by raising, the cycle ends as "partial success": that
\* toast, one entry appended to the session log, submitted true, and the form
\* fields cleared.
C7_NotifyFailureIsPartialSuccess ==
  [][\A k \in 1..Len(inflight) :
        (AfterNotify(k, "error") \/ AfterNotify(k, "throw")) =>
          /\ toast' = ToastPartialSuccess
          /\ sessionLeads' = Append(sessionLeads,
                [name |-> inflight[k].snap.name, email |-> inflight[k].snap.email])
          /\ submitted'
          /\ inflight[k].live => formData' = EmptyForm]_vars

\* the part of C7 about a notification call that returns an error
C7_ReturnedErrorIsPartialSuccess ==
  [][\A k \in 1..Len(inflight) :
        AfterNotify(k, "error") =>
          /\ toast' = ToastPartialSuccess
          /\ sessionLeads' = Append(sessionLeads,
                [name |-> inflight[k].snap.name, email |-> inflight[k].snap.email])
          /\ submitted'
          /\ inflight[k].live => formData' = EmptyForm]_vars

\* the unique-violation signal of an insert error: code 23505, or a message
\* containing unique_email
CarriesUniqueSignal(err) ==
  \/ err.code = "23505"
  \/ \E j \in DOMAIN err.message : err.message[j] = "unique_email"

\* the insert of cycle k fails with error err: the table rejects the row, or
\* the collaborator reports another error
InsertFailsWith(k, err) ==
  \/ /\ err = UniqueViolation
     /\ ~unique_email(leads, inflight[k].snap)
     /\ AfterInsert(k, [kind |-> "return", err |-> NoError])
  \/ /\ err \in OtherInsertErrors
     /\ AfterInsert(k, [kind |-> "error", err |-> err])

\* C8.  A failed insert is treated as a duplicate exactly when its error
\* carries the unique-violation signal, and then ends as "already registered";
\* every other failed insert ends with the blocking save-failed error: the
\* session store unchanged, the form fields retained, the guard cleared, no
\* notification issued.
C8_InsertFailureRouting ==
  [][\A k \in 1..Len(inflight) : \A err \in {UniqueViolation} \cup OtherInsertErrors :
        InsertFailsWith(k, err) =>
          /\ inflight' = RemoveAt(inflight, k)
          /\ leads' = leads
          /\ sessionLeads' = sessionLeads
          /\ IF CarriesUniqueSignal(err)
             THEN /\ toast' = ToastAlreadyRegistered
                  /\ submitted'
                  /\ inflight[k].live => formData' = EmptyForm
             ELSE /\ toast' = ToastSaveFailed
                  /\ UNCHANGED <<submitted, formData>>
                  /\ inflight[k].live => (~isSubmitting' /\ ~submissionRef')]_vars

\* the first form's insert has just failed for another reason: the error toast
\* is up, the fields are still filled in, the store is untouched
C8_Witness ==
  /\ toast = ToastSaveFailed
  /\ mounts = 1
  /\ formData = [name |-> "Alice", email |-> "b@x.com", industry |-> "technology"]
  /\ ~submitted
  /\ sessionLeads = <<>>
  /\ ~GuardBlocks
  /\ inflight = <<>>

\* C9.  Whatever the interleaving of cycles that use the same email (of the
\* mounted form, of forms unmounted in flight, of other clients), and even when
\* several of them have passed the advisory check, the table never holds two
\* rows with the same email, and a cycle whose insert loses to unique_email
\* ends as "already registered", not with the save-failed error.
C9_OneInsertPerEmail ==
  [][/\ \A i, j \in 1..Len(leads') : leads'[i].email = leads'[j].email => i = j
     /\ \A k \in 1..Len(inflight) :
          (/\ ~unique_email(leads, inflight[k].snap)
           /\ AfterInsert(k, [kind |-> "return", err |-> NoError])) =>
             /\ toast' = ToastAlreadyRegistered
             /\ submitted'
             /\ leads' = leads]_vars

\* two cycles with the same email both passed the advisory check; one has
\* inserted its row and the other's insert is still pending
C9_Witness ==
  /\ Len(inflight) = 2
  /\ inflight[1].snap.email = inflight[2].snap.email
  /\ Pending(1, "notify")
  /\ Pending(2, "insert")
  /\ Len(leads) = 1
  /\ leads[1].email = inflight[2].snap.email

\* C10.  Within one cycle the steps are strictly sequential: a cycle in flight
\* has exactly one request pending; while its insert is pending its duplicate
\* check has resolved and no notification has been issued; while its
\* notification is pending its insert has resolved successfully (its row is in
\* the table).
C10_StrictlySequential ==
  \A k \in 1..Len(inflight) :
    LET cyc == inflight[k] IN
    /\ Cardinality(cyc.pend) = 1
    /\ (Pending(k, "check") /\ cyc.live) =>
         issued = [check |-> 1, insert |-> 0, notify |-> 0]
    /\ (Pending(k, "insert") /\ cyc.live) =>
         issued = [check |-> 1, insert |-> 1, notify |-> 0]
    /\ (Pending(k, "notify") /\ cyc.live) =>
         issued = [check |-> 1, insert |-> 1, notify |-> 1]
    /\ Pending(k, "notify") =>
         \E i \in 1..Len(leads) : leads[i] = cyc.snap

\* the notification of the mounted form is pending, its row is in the table
C10_Witness ==
  /\ mounts = 1
  /\ Len(inflight) = 1
  /\ Pending(1, "notify")
  /\ leads = <<inflight[1].snap>>
  /\ issued = [check |-> 1, insert |-> 1, notify |-> 1]

C12_AdvisoryCheckDoesNotBlock ==
  [][\A k \in 1..Len(inflight) : \A o \in {"return", "fail"} :
        AfterDuplicateCheck(k, o) =>
          IF o = "return" /\ Cardinality(RowsWithEmail(leads, inflight[k].snap.email)) = 1
          THEN /\ toast' = ToastAlreadyRegistered
               /\ inflight' = RemoveAt(inflight, k)
          ELSE /\ inflight' = [inflight EXCEPT ![k].pend = {Req("insert", inflight[k].snap)}]
               /\ toast' = Null
               /\ UNCHANGED <<formData, validationErrors, isSubmitting, submissionRef,
                              submitted, sessionLeads, leads>>]_vars

\* the email is in the table, yet the first form's cycle is past its check and
\* its insert is pending: the check did not stop it
C12_Witness ==
  /\ mounts = 1
  /\ Len(inflight) = 1
  /\ Pending(1, "insert")
  /\ isSubmitting
  /\ \E i \in 1..Len(leads) : leads[i].email = inflight[1].snap.email
  /\ formData = inflight[1].snap
  /\ ~ignored

\* C13.  The session log never holds two entries with the same email, however
\* often the email is submitted again and whatever the later checks, inserts
\* and notifications answer.
C13_OneLogEntryPerEmail ==
  \A i, j \in 1..Len(sessionLeads) :
    sessionLeads[i].email = sessionLeads[j].email => i = j

\* an email already in the session log was submitted again and the cycle is
\* past its advisory check
C13_Witness ==
  /\ Len(sessionLeads) = 1
  /\ Len(inflight) = 1
  /\ inflight[1].live
  /\ inflight[1].snap.email = sessionLeads[1].email
  /\ Pending(1, "insert")

\* C14.  When the notification of a cycle returns without error (so its insert
\* had succeeded), the cycle ends in full success: the "Success!" toast, exactly
\* one entry with the submitted name and email appended to the session log,
\* submitted true, and, in the form the cycle belongs to, the fields reset to
\* empty and both guard flags cleared.
C14_FullSuccess ==
  [][\A k \in 1..Len(inflight) :
        AfterNotify(k, "ok") =>
          /\ toast' = ToastSuccess
          /\ sessionLeads' = Append(sessionLeads,
               [name |-> inflight[k].snap.name, email |-> inflight[k].snap.email])
          /\ submitted'
          /\ inflight' = RemoveAt(inflight, k)
          /\ inflight[k].live =>
               /\ formData' = EmptyForm
               /\ ~isSubmitting'
               /\ ~submissionRef']_vars

\* scenario A: Alice's lead went through; one log entry, one row, the form empty
C14_Witness ==
  /\ toast = ToastSuccess
  /\ mounts = 1
  /\ inflight = <<>>
  /\ sessionLeads = <<[name |-> "Alice", email |-> "a@x.com"]>>
  /\ leads = <<[name |-> "Alice", email |-> "a@x.com", industry |-> "technology"]>>
  /\ submitted
  /\ formData = EmptyForm
  /\ ~isSubmitting /\ ~submissionRef

\* a step of cycle k in which the awaited call (duplicate check, insert or
\* notification) throws
Throws(k) ==
  \/ AfterDuplicateCheck(k, "throw")
  \/ AfterInsert(k, [kind |-> "throw", err |-> NoError])
  \/ AfterNotify(k, "throw")

SaveFails(k) ==
  \E e \in OtherInsertErrors :
    /\ ~IsDuplicateError(e)
    /\ AfterInsert(k, [kind |-> "error", err |-> e])

\* C16.  A non-duplicate insert failure of the mounted form's cycle leaves the
\* form idle with its fields as they were: no cycle in flight, both guard
\* flags clear, no call counted.  The submit that follows it with valid fields
\* is accepted and starts a cycle that is exactly a first cycle: the current
\* fields as its snapshot and the duplicate check as its only pending request.
C16_ResubmitAfterSaveFailed ==
  [][/\ \A k \in 1..Len(inflight) :
          (inflight[k].live /\ SaveFails(k)) =>
            /\ toast' = ToastSaveFailed
            /\ LiveCycles' = {}
            /\ ~GuardBlocks'
            /\ issued' = NoCalls
            /\ UNCHANGED <<formData, validationErrors, submitted, sessionLeads, leads>>
     /\ (toast = ToastSaveFailed /\ LiveCycles = {} /\ handleSubmit
           /\ Proceeds(validateLeadForm(formData))) =>
            /\ ~ignored'
            /\ inflight' = Append(inflight,
                 [pend |-> {Req("check", [email |-> formData.email])},
                  snap |-> formData, live |-> TRUE])
            /\ issued' = [check |-> 1, insert |-> 0, notify |-> 0]
            /\ isSubmitting' /\ submissionRef']_vars

\* scenario D: the save failed, the fields are retained, and a submit of the
\* same values starts a cycle
C16_Witness ==
  /\ toast = ToastSaveFailed
  /\ mounts = 1
  /\ inflight = <<>>
  /\ formData = [name |-> "Alice", email |-> "a@x.com", industry |-> "technology"]
  /\ leads = <<>>
  /\ ENABLED (handleSubmit /\ ~ignored' /\ Len(inflight') = 1)

\* cycle k ends on the success branch: its notification returned
EndsAsSuccess(k) == AfterNotify(k, "ok") \/ AfterNotify(k, "error")

\* cycle k ends as a duplicate, found by the check or signalled by the insert
EndsAsDuplicate(k) ==
  \/ AnsweredForExistingEmail(k)
  \/ \E e \in OtherInsertErrors :
       CarriesUniqueSignal(e) /\ AfterInsert(k, [kind |-> "error", err |-> e])

\* C17, as stated.  Only the success branch of a cycle changes the session
\* store: every other step of a cycle, and so every invalid, duplicate,
\* insert-failed or exception ending, leaves submitted and the session log as
\* they were.
C17_OnlySuccessChangesStore ==
  [][/\ handleSubmit => UNCHANGED <<submitted, sessionLeads>>
     /\ \A k \in 1..Len(inflight) :
          (CycleStep(k) /\ ~EndsAsSuccess(k)) =>
            UNCHANGED <<submitted, sessionLeads>>]_vars

\* C17, amended.  The session log is changed by a cycle only in its last step
\* on the success branch, by one appended entry, together with submitted set
\* to true; a duplicate ending sets submitted to true and leaves the log alone;
\* every other step of a cycle, and every submit, changes no field of the
\* store.
C17_StoreChangedBySuccessAndDuplicate ==
  [][/\ handleSubmit => UNCHANGED <<submitted, sessionLeads>>
     /\ \A k \in 1..Len(inflight) :
          CycleStep(k) =>
            IF EndsAsSuccess(k)
            THEN /\ sessionLeads' = Append(sessionLeads,
                      [name |-> inflight[k].snap.name, email |-> inflight[k].snap.email])
                 /\ submitted'
                 /\ inflight' = RemoveAt(inflight, k)
            ELSE IF EndsAsDuplicate(k)
            THEN /\ sessionLeads' = sessionLeads
                 /\ submitted'
                 /\ inflight' = RemoveAt(inflight, k)
            ELSE UNCHANGED <<submitted, sessionLeads>>]_vars

\* scenario B: the lead of the session's one log entry was submitted again and
\* the cycle ended as a duplicate; submitted is true again, the log has one entry
C17_Witness ==
  /\ toast = ToastAlreadyRegistered
  /\ submitted
  /\ mounts = 1
  /\ inflight = <<>>
  /\ sessionLeads = <<[name |-> "Alice", email |-> "a@x.com"]>>
  /\ leads = <<[name |-> "Alice", email |-> "a@x.com", industry |-> "technology"]>>

\* C18.  No step shortens or rewrites the session log: after every step the
\* old log is a prefix of the new one.  A mount leaves the log as it is, and
\* the "Submit Another Lead" reset sets submitted to false and the guard's
\* submissionRef flag to false and changes nothing else: the log, the fields,
\* the errors, isSubmitting and the cycles in flight stay as they are.
C18_LogOnlyAppended ==
  [][/\ Len(sessionLeads') >= Len(sessionLeads)
     /\ SubSeq(sessionLeads', 1, Len(sessionLeads)) = sessionLeads
     /\ Mount => sessionLeads' = sessionLeads
     /\ SubmitAnotherLead =>
          /\ ~submitted'
          /\ ~submissionRef'
          /\ UNCHANGED <<formData, validationErrors, isSubmitting, sessionLeads,
                         inflight, leads, mounts, issued>>]_vars

\* two leads went through in the first form, a reset between them and one
\* after: the log holds both, in order, and the form is shown again
C18_Witness ==
  /\ mounts = 1
  /\ ~submitted
  /\ sessionLeads = <<[name |-> "Alice", email |-> "a@x.com"],
                      [name |-> "Alice", email |-> "b@x.com"]>>
  /\ inflight = <<>>
  /\ toast = Null

\* the step ends cycle k with one of the toasts given
EndsWith(k, toasts) ==
  /\ inflight' = RemoveAt(inflight, k)
  /\ toast' \in toasts

\* the step moves cycle k on to its next call
MovesOnTo(k, op) ==
  /\ inflight' = [inflight EXCEPT ![k].pend = {Req(op, inflight[k].snap)}]
  /\ toast' = Null

\* the steps of cycle k up to the success of its insert: the check ends the
\* cycle (duplicate found, or an exception) or moves on to the insert; the
\* insert ends it (rejected as duplicate, failed, or an exception) with the
\* table unchanged, or stores the row and moves on to the notification
StepsUpToInsert(k) ==
  /\ \A o \in CheckOutcomes :
       AfterDuplicateCheck(k, o) =>
         \/ EndsWith(k, {ToastAlreadyRegistered, ToastWentWrong})
         \/ MovesOnTo(k, "insert")
  /\ \A o \in InsertOutcomes :
       AfterInsert(k, o) =>
         \/ EndsWith(k, {ToastAlreadyRegistered, ToastSaveFailed, ToastWentWrong})
              /\ leads' = leads
         \/ MovesOnTo(k, "notify") /\ leads' = Append(leads, inflight[k].snap)

\* the step completes cycle k with overall success
Completes(k) ==
  /\ EndsWith(k, {ToastSuccess, ToastPartialSuccess})
  /\ submitted'
  /\ sessionLeads' = Append(sessionLeads,
       [name |-> inflight[k].snap.name, email |-> inflight[k].snap.email])

\* C19.  A cycle goes from the duplicate check to the insert to the
\* notification, leaving early only at the check or at the insert, and a cycle
\* whose insert succeeded always reaches complete with overall success,
\* whatever its notification does.
C19_InsertSuccessMeansComplete ==
  [][\A k \in 1..Len(inflight) :
        /\ StepsUpToInsert(k)
        /\ \A o \in NotifyOutcomes : AfterNotify(k, o) => Completes(k)]_vars

\* the same, for a notification call that returns (with or without an error)
C19_ReturnedNotifyMeansComplete ==
  [][\A k \in 1..Len(inflight) :
        /\ StepsUpToInsert(k)
        /\ \A o \in NotifyOutcomes \ {"throw"} : AfterNotify(k, o) => Completes(k)]_vars

\* C20.  When every awaited call eventually returns or throws, a set guard is
\* eventually cleared and the cycles in flight eventually all end.  The guard
\* has no other way out: a set guard is cleared only by a step in which a call
\* of a cycle resolves, or by the form being replaced on a mount, so while the
\* awaited call does not resolve the guard stays set.
C20_CycleTerminates ==
  /\ GuardBlocks ~> ~GuardBlocks
  /\ (inflight # <<>>) ~> (inflight = <<>>)
  /\ [][(GuardBlocks /\ ~GuardBlocks') =>
          (Mount \/ \E k \in LiveCycles : CycleStep(k))]_vars

\* the first form's cycle went through all three calls, the last returning an
\* error, and is over with the guard clear
C20_Witness ==
  /\ toast = ToastPartialSuccess
  /\ mounts = 1
  /\ inflight = <<>>
  /\ ~GuardBlocks

\* the request of the invocation is a POST whose body parses and has all
\* three fields non-empty
CompleteRequest(req) ==
  req.method = "POST" /\ req.json /\ ~MissingRequiredFields(req)

\* C21.  An invocation with a complete request and no RESEND_API_KEY is
\* answered at once with an error response of status 500, and issues no
\* transport request.
C21_NoTransportKeyIs500 ==
  (fn.pc # "idle" /\ CompleteRequest(fn.req) /\ ~fn.env.RESEND_API_KEY) =>
    /\ fn.pc = "done"
    /\ fn.resp.status = 500
    /\ fn.resp.error = ErrNotConfigured
    /\ fn.resp.emailId = Null
    /\ fn.sendCalls = 0

\* a complete request for Alice was answered while neither key was set
C21_Witness ==
  /\ fn.pc = "done"
  /\ fn.req = [method |-> "POST", json |-> TRUE, name |-> "Alice",
               email |-> "a@x.com", industry |-> "technology"]
  /\ fn.env = [RESEND_API_KEY |-> FALSE, OPENAI_API_KEY |-> FALSE]
  /\ fn.resp.status = 500

\* C22.  The personalization step never fails the request.  Without an
\* OPENAI_API_KEY the handler goes straight to the transport request with the
\* static text; with the key, a generative-text request that answers non-OK,
\* answers without content or throws is followed by the transport request
\* with the static text.  In each case it is the invocation's one transport
\* request and no response has been given yet.
C22_PersonalizationFallsBack ==
  [][/\ \A req \in Requests, env \in Environments :
          (handler(req, env) /\ CompleteRequest(req)
             /\ env.RESEND_API_KEY /\ ~env.OPENAI_API_KEY) =>
            /\ fn'.pc = "send"
            /\ fn'.content = Fallback
            /\ fn'.aiCalls = 0
            /\ fn'.sendCalls = 1
            /\ fn'.resp = NoResponse
     /\ \A o \in OpenAIOutcomes \ {"content"} :
          AfterOpenAI(o) =>
            /\ fn'.pc = "send"
            /\ fn'.content = Fallback
            /\ fn'.sendCalls = 1
            /\ fn'.resp = NoResponse]_vars

\* the generative-text request failed and the transport request is out with
\* the static text
C22_Witness ==
  /\ fn.pc = "send"
  /\ fn.aiCalls = 1
  /\ fn.content = Fallback
  /\ fn.sendCalls = 1

\* C23.  A finished invocation has answered 200 with the transport's message
\* identifier exactly when its transport request resolved OK; when the
\* transport request failed or threw, or the request body could not be read,
\* it has answered 500 with an error; and no invocation ever has more than
\* one transport request.
C23_SuccessIffTransportOK ==
  /\ fn.sendCalls <= 1
  /\ fn.pc = "done" =>
       /\ (fn.resp.status = 200 /\ fn.resp.emailId = MessageId) <=> (fn.transport = "ok")
       /\ fn.transport = "ok" => fn.sendCalls = 1
       /\ (fn.transport \in {"notOk", "throw"} \/ (fn.req.method = "POST" /\ ~fn.req.json)) =>
            (fn.resp.status = 500 /\ fn.resp.error # Null /\ fn.resp.emailId = Null)

\* Alice's email went out: one transport request, answered OK, and the
\* response carries its identifier
C23_Witness ==
  /\ fn.pc = "done"
  /\ fn.transport = "ok"
  /\ fn.sendCalls = 1
  /\ fn.resp = Respond(200, Null, MessageId)
  /\ fn.req.name = "Alice"

\* C24.  A POST whose body lacks name, email or industry, or has one of them
\* empty, is answered 400 whatever keys are set, and issues neither a
\* generative-text request nor a transport request.
C24_MissingFieldIs400 ==
  [][\A req \in Requests, env \in Environments :
        (handler(req, env) /\ req.method = "POST" /\ req.json
           /\ \E f \in Fields : req[f] \in {"", Undefined}) =>
          /\ fn'.pc = "done"
          /\ fn'.resp = Respond(400, ErrMissingFields, Null)
          /\ fn'.aiCalls = 0
          /\ fn'.sendCalls = 0]_vars

\* a request with an empty industry was rejected while the transport key was
\* not set
C24_Witness ==
  /\ fn.pc = "done"
  /\ fn.req = [method |-> "POST", json |-> TRUE, name |-> "Alice",
               email |-> "a@x.com", industry |-> ""]
  /\ ~fn.env.RESEND_API_KEY
  /\ fn.resp.status = 400

\* C25.  Over the cycles of this session, of the forms it has unmounted and of
\* the other clients, in any interleaving, the notification is invoked at most
\* once for an email: never more often than the table has rows with that
\* email, and the table has at most one.
C25_OneNotificationPerEmail ==
  \A e \in Emails :
    /\ notifyCalls[e] <= Cardinality(RowsWithEmail(leads, e))
    /\ notifyCalls[e] <= 1

\* another client's lead for a@x.com is stored and notified, and a cycle of
\* this session for the same email is past its check with its insert pending
C25_Witness ==
  /\ notifyCalls["a@x.com"] = 1
  /\ \E i \in 1..Len(leads) : leads[i].email = "a@x.com" /\ leads[i].name = "Bob"
  /\ \E k \in 1..Len(inflight) :
       inflight[k].snap.email = "a@x.com" /\ Pending(k, "insert")

\* C26.  A cycle works on the fields as they were when its submit was
\* accepted.  That snapshot is the form's fields at the accepting step; every
\* request the cycle has pending is built from it (the check asks for its
\* email, the insert and the notification carry its three fields); the row an
\* insert stores and the entry a cycle appends to the session log are the
\* snapshot's; and editing a field changes no cycle in flight.
C26_SingleSnapshot ==
  /\ [](\A k \in 1..Len(inflight) : \A r \in inflight[k].pend :
          r.body = IF r.op = "check"
                   THEN [email |-> inflight[k].snap.email]
                   ELSE inflight[k].snap)
  /\ [][/\ (handleSubmit /\ Len(inflight') = Len(inflight) + 1) =>
             inflight'[Len(inflight')].snap = formData
        /\ (\E f \in Fields : \E v \in FieldValues(f) : handleInputChange(f, v)) =>
             inflight' = inflight
        /\ \A k \in 1..Len(inflight) :
             CycleStep(k) =>
               /\ leads' # leads => leads' = Append(leads, inflight[k].snap)
               /\ sessionLeads' # sessionLeads =>
                    sessionLeads' = Append(sessionLeads,
                      [name |-> inflight[k].snap.name, email |-> inflight[k].snap.email])]_vars

\* the lead for a@x.com is stored and its notification is pending, while the
\* email field has been edited to b@x.com
C26_Witness ==
  /\ mounts = 1
  /\ Len(inflight) = 1
  /\ Pending(1, "notify")
  /\ inflight[1].snap.email = "a@x.com"
  /\ TheReq(1, "notify").body.email = "a@x.com"
  /\ formData.email = "b@x.com"
  /\ leads = <<inflight[1].snap>>

\* C27.  The session log grows by one entry in exactly the steps in which a
\* cycle of the session ends in full or partial success, and changes its
\* length in no other step, so that, the log being empty at first, its length
\* is always the number of such endings.  Every entry of the log has the name
\* and email of a row of the table, a row this session's insert stored.
C27_LogCountsSuccesses ==
  /\ [](\A i \in 1..Len(sessionLeads) :
          \E j \in 1..Len(leads) :
            /\ leads[j].email = sessionLeads[i].email
            /\ leads[j].name = sessionLeads[i].name
            /\ leads[j] \notin OtherRows)
  /\ [][/\ Len(sessionLeads') \in {Len(sessionLeads), Len(sessionLeads) + 1}
        /\ (Len(sessionLeads') = Len(sessionLeads) + 1) <=>
             (\E k \in 1..Len(inflight) : EndsAsSuccess(k))]_vars

\* two leads of the session are stored; the cycle of the first ended in
\* success, the notification of the second threw: the log has one entry
C27_Witness ==
  /\ toast = ToastWentWrong
  /\ inflight = <<>>
  /\ Len(leads) = 2
  /\ leads[1].name = "Alice" /\ leads[2].name = "Alice"
  /\ sessionLeads = <<[name |-> "Alice", email |-> leads[1].email]>>

\* C28.  While a cycle of the mounted form is in flight submitted is false;
\* submitted becomes true only in a step that ends a cycle as a duplicate or
\* in success, and becomes false only by the reset or by a mount.
C28_NotSubmittedDuringCycle ==
  /\ [](LiveCycles # {} => ~submitted)
  /\ [][/\ (~submitted /\ submitted') =>
             \E k \in 1..Len(inflight) : EndsAsSuccess(k) \/ EndsAsDuplicate(k)
        /\ (submitted /\ ~submitted') => (SubmitAnotherLead \/ Mount)]_vars

\* the second half alone: where submitted changes
C28_SubmittedChangesOnlyAtEndResetMount ==
  [][/\ (~submitted /\ submitted') =>
          \E k \in 1..Len(inflight) : EndsAsSuccess(k) \/ EndsAsDuplicate(k)
     /\ (submitted /\ ~submitted') => (SubmitAnotherLead \/ Mount)]_vars

\* the first half in a session that has mounted the form once
C28_NotSubmittedDuringCycleOfOnlyForm ==
  (mounts = 1 /\ LiveCycles # {}) => ~submitted

\* C29.  An invocation that finds no RESEND_API_KEY has issued no
\* generative-text request, whether or not an OPENAI_API_KEY is set.
C29_NoTransportKeyNoPersonalization ==
  (fn.pc # "idle" /\ ~fn.env.RESEND_API_KEY) => fn.aiCalls = 0

\* a complete request was answered 500 for the missing transport key while
\* the generative-text key was set
C29_Witness ==
  /\ fn.pc = "done"
  /\ CompleteRequest(fn.req)
  /\ ~fn.env.RESEND_API_KEY
  /\ fn.env.OPENAI_API_KEY
  /\ fn.resp = Respond(500, ErrNotConfigured, Null)
  /\ fn.aiCalls = 0

\* C30.  A submit that passes the guard sets the displayed errors to the
\* validator's result for the fields submitted, whatever was displayed
\* before, so to none when the fields are valid.  Editing a field sets that
\* field, removes that field from the displayed errors, and leaves the other
\* fields and the other fields' errors as they were.
C30_ErrorsFollowValidatorAndEdits ==
  [][/\ (handleSubmit /\ ~GuardBlocks) =>
          /\ validationErrors' = validateLeadForm(formData)
          /\ Proceeds(validateLeadForm(formData)) => validationErrors' = {}
     /\ \A f \in Fields : \A v \in FieldValues(f) :
          handleInputChange(f, v) =>
            /\ validationErrors' = validationErrors \ {f}
            /\ formData'[f] = v
            /\ \A g \in Fields \ {f} :
                 /\ formData'[g] = formData[g]
                 /\ (g \in validationErrors') <=> (g \in validationErrors)]_vars

\* all three errors were displayed for the empty form; name and industry
\* have been filled in since, and the error of the email alone is left
C30_Witness ==
  /\ validationErrors = {"email"}
  /\ formData = [name |-> "Alice", email |-> "", industry |-> "technology"]
  /\ mounts = 1
  /\ inflight = <<>>

====
